---- MODULE Spec2Model ----
(***************************************************************************)
(* MoQT wire-format layer of quiche: the subscribe filter resolver and the *)
(* symbol tables of quiche/quic/moqt/moqt_messages.cc, and the MoqtFramer  *)
(* entry points that the tests of moqt_framer_test.cc drive.               *)
(*                                                                         *)
(* The framer keeps no state between calls.  A state of the model is one   *)
(* call: the operation, its arguments and what it returned (the result,    *)
(* the buffer and the QUIC_BUG it reported).  A serialized Subscribe may   *)
(* then be handed to the parser, which is a second step on the same bytes. *)
(*                                                                         *)
(* A buffer is the sequence of the fields written to the wire, one element *)
(* per field; an empty sequence is the empty QuicheBuffer.                 *)
(***************************************************************************)
EXTENDS Integers, Sequences, FiniteSets, TLC

VARIABLES
    op,                  \* the operation of the last call, "none" initially
    subscribe,           \* its MoqtSubscribe argument
    object,              \* its MoqtObject argument
    is_first_in_stream,  \* its is_first_in_stream argument
    filter_type,         \* the MoqtFilterType that GetFilterType returned
    buffer,              \* the QuicheBuffer returned
    bug,                 \* the text of the QUIC_BUG reported, NoBug if none
    parsed,              \* what the parser made of buffer
    subscribe_update,    \* its MoqtSubscribeUpdate argument
    payload,             \* its payload argument (SerializeObjectDatagram)
    symbols,             \* a symbol-table call: the argument, then each result
    frame,               \* the nghttp2_frame handed to OnFrameReceived
    visitor              \* the Http2VisitorInterface calls it made, in order

vars == <<op, subscribe, object, is_first_in_stream, filter_type, buffer, bug,
          parsed, subscribe_update, payload, symbols, frame, visitor>>

\* Largest group / object / payload-length value drawn for an argument.
MaxVal == 2
\* Largest subscribe id, track alias, group id, object id and priority drawn.
MaxId == 1

Values == 0..MaxVal
Ids == 0..MaxId

(***************************************************************************)
(* std::optional<uint64_t>.  val of an empty optional is never read by the *)
(* model: a read through operator* goes through Deref.                     *)
(***************************************************************************)
nullopt == [has |-> FALSE, val |-> 0]
Some(v) == [has |-> TRUE, val |-> v]
Optionals == {nullopt} \cup {Some(v) : v \in Values}

\* *o.  On an empty optional the read is undefined behaviour: the value is
\* whatever the storage holds, here the caller-chosen indeterminate.
Deref(o, indeterminate) == IF o.has THEN o.val ELSE indeterminate

\* enum class MoqtFilterType
kNone == "kNone"
kLatestGroup == "kLatestGroup"
kLatestObject == "kLatestObject"
kAbsoluteStart == "kAbsoluteStart"
kAbsoluteRange == "kAbsoluteRange"
MoqtFilterType ==
    {kNone, kLatestGroup, kLatestObject, kAbsoluteStart, kAbsoluteRange}

\* enum class MoqtForwardingPreference
kObject == "kObject"
kDatagram == "kDatagram"
kTrack == "kTrack"
kGroup == "kGroup"
MoqtForwardingPreference == {kObject, kDatagram, kTrack, kGroup}

\* enum class MoqtDataStreamType
kObjectStream == "kObjectStream"
kObjectDatagram == "kObjectDatagram"
kStreamHeaderTrack == "kStreamHeaderTrack"
kStreamHeaderGroup == "kStreamHeaderGroup"
kPadding == "kPadding"
MoqtDataStreamType ==
    {kObjectStream, kObjectDatagram, kStreamHeaderTrack, kStreamHeaderGroup,
     kPadding}

\* enum class MoqtObjectStatus (the declared statuses)
kNormal == "kNormal"
kObjectDoesNotExist == "kObjectDoesNotExist"
kEndOfGroup == "kEndOfGroup"
kEndOfTrack == "kEndOfTrack"
MoqtObjectStatus == {kNormal, kObjectDoesNotExist, kEndOfGroup, kEndOfTrack}

\* The wire tag of a Subscribe message.
kSubscribe == "kSubscribe"

\* The texts of the contract violations.
NoBug == ""
InvalidObjectRange == "Invalid object range"
LengthRequired == "requires knowing the object length"
MustBeFirst == "must be first"
StatusMustBeNormal == "Object status must be kNormal if payload is non-empty"

\* struct MoqtSubscribe (the fields the framer writes ahead of the filter,
\* and the four range optionals)
MoqtSubscribe ==
    [subscribe_id : Ids, track_alias : Ids,
     start_group : Optionals, start_object : Optionals,
     end_group : Optionals, end_object : Optionals]

\* struct MoqtObject
MoqtObject ==
    [subscribe_id : Ids, track_alias : Ids, group_id : Ids, object_id : Ids,
     publisher_priority : Ids, object_status : MoqtObjectStatus,
     forwarding_preference : MoqtForwardingPreference,
     payload_length : Optionals]

NoSubscribe ==
    [subscribe_id |-> 0, track_alias |-> 0,
     start_group |-> nullopt, start_object |-> nullopt,
     end_group |-> nullopt, end_object |-> nullopt]

NoObject ==
    [subscribe_id |-> 0, track_alias |-> 0, group_id |-> 0, object_id |-> 0,
     publisher_priority |-> 0, object_status |-> kNormal,
     forwarding_preference |-> kObject, payload_length |-> nullopt]

NotParsed == [ok |-> FALSE, message |-> NoSubscribe]

\* The wire tag of a SubscribeUpdate message.
kSubscribeUpdate == "kSubscribeUpdate"

\* struct MoqtSubscribeUpdate
MoqtSubscribeUpdate ==
    [subscribe_id : Ids, start_group : Values, start_object : Values,
     end_group : Optionals, end_object : Optionals,
     subscriber_priority : Ids]

NoSubscribeUpdate ==
    [subscribe_id |-> 0, start_group |-> 0, start_object |-> 0,
     end_group |-> nullopt, end_object |-> nullopt,
     subscriber_priority |-> 0]

\* Payloads of 0 to MaxVal bytes.
Payloads == {[i \in 1..n |-> i] : n \in Values}

(***************************************************************************)
(* GetFilterType, moqt_messages.cc:21-55, in three parts.                  *)
(***************************************************************************)

\* Line 22: an end object without an end group.
EndObjectWithoutGroup_Swapped(message) ==
    message.end_group.has /\ ~message.end_object.has

EndObjectWithoutGroup(message) ==
    ~message.end_group.has /\ message.end_object.has

\* Line 25.
HasStart(message) == message.start_group.has /\ message.start_object.has

\* Lines 29-39: end_group and both start fields are present.  end_object is
\* read through operator* whether or not it holds a value (lines 32-35); the
\* read happens only when the two groups are equal (&& short-circuits).
BoundedFilter_NoGroupOrder(message, indeterminate) ==
    LET end_object == Deref(message.end_object, indeterminate)
    IN  IF /\ message.end_group.val = message.start_group.val
           /\ end_object <= message.start_object.val
        THEN IF end_object < message.start_object.val THEN kNone
             ELSE kAbsoluteStart
        ELSE kAbsoluteRange

BoundedFilter_StrictObject(message, indeterminate) ==
    LET end_object == Deref(message.end_object, indeterminate)
    IN  IF message.end_group.val < message.start_group.val THEN kNone
        ELSE IF /\ message.end_group.val = message.start_group.val
                /\ end_object < message.start_object.val
             THEN kNone
             ELSE kAbsoluteRange

BoundedFilter(message, indeterminate) ==
    LET end_object == Deref(message.end_object, indeterminate)
    IN  IF message.end_group.val < message.start_group.val THEN kNone
        ELSE IF /\ message.end_group.val = message.start_group.val
                /\ end_object <= message.start_object.val
             THEN IF end_object < message.start_object.val THEN kNone
                  ELSE IF end_object = message.start_object.val
                       THEN kAbsoluteStart
                       ELSE kAbsoluteRange
             ELSE kAbsoluteRange

\* Lines 42-54: end_group is absent.
UnboundedFilter_AnyObject(message) ==
    IF HasStart(message) THEN kAbsoluteStart
    ELSE IF ~message.start_group.has
         THEN IF message.start_object.has THEN kLatestGroup
              ELSE kLatestObject
         ELSE kNone

UnboundedFilter(message) ==
    IF HasStart(message) THEN kAbsoluteStart
    ELSE IF ~message.start_group.has
         THEN IF message.start_object.has
              THEN IF message.start_object.val = 0 THEN kLatestGroup
                   ELSE kNone
              ELSE kLatestObject
         ELSE kNone

GetFilterType(message, indeterminate) ==
    IF EndObjectWithoutGroup(message) THEN kNone
    ELSE IF message.end_group.has
         THEN IF HasStart(message)
              THEN BoundedFilter(message, indeterminate)
              ELSE kNone
         ELSE UnboundedFilter(message)

(***************************************************************************)
(* GetMessageTypeForForwardingPreference, moqt_messages.cc:148-163.        *)
(***************************************************************************)
\* Largest wire integer handed to IntegerToObjectStatus.
MaxInteger == 6
WireIntegers == 0..MaxInteger

\* A MoqtObjectStatus held as its numeric value: the statuses the enum
\* declares for the wire, and the sentinel that stands for every other wire
\* value.
DeclaredObjectStatusValues == 0..4
kInvalidObjectStatus == 5

IntegerToObjectStatus_FourIsInvalid(integer) ==
    IF integer >= 4 THEN kInvalidObjectStatus ELSE integer

(***************************************************************************)
(* IntegerToObjectStatus, moqt_messages.cc:14-19.  The static_cast is      *)
(* applied to integers below 5 only, which every enum representation       *)
(* holds unchanged.                                                        *)
(***************************************************************************)
IntegerToObjectStatus(integer) ==
    IF integer >= 5 THEN kInvalidObjectStatus ELSE integer

\* The QUIC_BUG of lines 160-161.
NoMessageType == "Forwarding preference does not indicate message type"

GetMessageTypeForForwardingPreference_TrackGroupSwapped(preference) ==
    CASE preference = kObject -> kObjectStream
      [] preference = kDatagram -> kObjectDatagram
      [] preference = kTrack -> kStreamHeaderGroup
      [] preference = kGroup -> kStreamHeaderTrack
      [] OTHER -> kObjectStream

GetMessageTypeForForwardingPreference(preference) ==
    CASE preference = kObject -> kObjectStream
      [] preference = kDatagram -> kObjectDatagram
      [] preference = kTrack -> kStreamHeaderTrack
      [] preference = kGroup -> kStreamHeaderGroup
      [] OTHER -> kObjectStream

\* Lines 160-161 are reached when no case of the switch returned.
GetMessageTypeForForwardingPreferenceBug(preference) ==
    IF preference \in MoqtForwardingPreference THEN NoBug ELSE NoMessageType

(***************************************************************************)
(* Values of an enum type that are none of its enumerators (a cast of an   *)
(* integer read from the wire), named by their decimal text.               *)
(***************************************************************************)
OutOfSet == {ToString(n) : n \in Values}

\* enum class MoqtMessageType: the enumerators moqt_messages.cc and
\* moqt_framer_test.cc name.
MoqtMessageType ==
    {"kClientSetup", "kServerSetup", kSubscribe, "kSubscribeOk",
     "kSubscribeError", "kUnsubscribe", "kSubscribeDone", kSubscribeUpdate,
     "kAnnounceCancel", "kTrackStatusRequest", "kTrackStatus", "kAnnounce",
     "kAnnounceOk", "kAnnounceError", "kUnannounce", "kGoAway", "kObjectAck",
     "kMaxSubscribeId"}

\* A name function returns a fixed text, or a text followed by the decimal
\* form of static_cast<int>(value).
Name(text) == <<text>>
Fallback(text, value) == <<text, value>>
IsFallback(name) == Len(name) = 2

(***************************************************************************)
(* MoqtMessageTypeToString, moqt_messages.cc:57-95.                        *)
(***************************************************************************)
MoqtMessageTypeToString(message_type) ==
    CASE message_type = "kClientSetup" -> Name("CLIENT_SETUP")
      [] message_type = "kServerSetup" -> Name("SERVER_SETUP")
      [] message_type = kSubscribe -> Name("SUBSCRIBE_REQUEST")
      [] message_type = "kSubscribeOk" -> Name("SUBSCRIBE_OK")
      [] message_type = "kSubscribeError" -> Name("SUBSCRIBE_ERROR")
      [] message_type = "kUnsubscribe" -> Name("UNSUBSCRIBE")
      [] message_type = "kSubscribeDone" -> Name("SUBSCRIBE_DONE")
      [] message_type = kSubscribeUpdate -> Name("SUBSCRIBE_UPDATE")
      [] message_type = "kAnnounceCancel" -> Name("ANNOUNCE_CANCEL")
      [] message_type = "kTrackStatusRequest" -> Name("TRACK_STATUS_REQUEST")
      [] message_type = "kTrackStatus" -> Name("TRACK_STATUS")
      [] message_type = "kAnnounce" -> Name("ANNOUNCE")
      [] message_type = "kAnnounceOk" -> Name("ANNOUNCE_OK")
      [] message_type = "kAnnounceError" -> Name("ANNOUNCE_ERROR")
      [] message_type = "kUnannounce" -> Name("UNANNOUNCE")
      [] message_type = "kGoAway" -> Name("GOAWAY")
      [] message_type = "kObjectAck" -> Name("OBJECT_ACK")
      [] OTHER -> Fallback("Unknown message ", message_type)

(***************************************************************************)
(* MoqtDataStreamTypeToString, moqt_messages.cc:97-111.                    *)
(***************************************************************************)
MoqtDataStreamTypeToString(type) ==
    CASE type = kObjectStream -> Name("OBJECT_STREAM")
      [] type = kObjectDatagram -> Name("OBJECT_PREFER_DATAGRAM")
      [] type = kStreamHeaderTrack -> Name("STREAM_HEADER_TRACK")
      [] type = kStreamHeaderGroup -> Name("STREAM_HEADER_GROUP")
      [] type = kPadding -> Name("PADDING")
      [] OTHER -> Fallback("Unknown stream type ", type)

(***************************************************************************)
(* MoqtForwardingPreferenceToString, moqt_messages.cc:113-128: the name    *)
(* and the QUIC_BUG reported (lines 125-126).                              *)
(***************************************************************************)
UnknownPreference == "Unknown preference "

MoqtForwardingPreferenceToString_Silent(preference) ==
    CASE preference = kObject -> [name |-> Name("OBJECT"), bug |-> NoBug]
      [] preference = kDatagram -> [name |-> Name("DATAGRAM"), bug |-> NoBug]
      [] preference = kTrack -> [name |-> Name("TRACK"), bug |-> NoBug]
      [] preference = kGroup -> [name |-> Name("GROUP"), bug |-> NoBug]
      [] OTHER -> [name |-> Fallback(UnknownPreference, preference),
                   bug |-> NoBug]

MoqtForwardingPreferenceToString(preference) ==
    CASE preference = kObject -> [name |-> Name("OBJECT"), bug |-> NoBug]
      [] preference = kDatagram -> [name |-> Name("DATAGRAM"), bug |-> NoBug]
      [] preference = kTrack -> [name |-> Name("TRACK"), bug |-> NoBug]
      [] preference = kGroup -> [name |-> Name("GROUP"), bug |-> NoBug]
      [] OTHER -> [name |-> Fallback(UnknownPreference, preference),
                   bug |-> UnknownPreference]

(***************************************************************************)
(* GetForwardingPreference, moqt_messages.cc:130-146: the preference       *)
(* returned and the QUIC_BUG reported (lines 143-144).                     *)
(***************************************************************************)
NoForwardingPreference ==
    "Message type does not indicate forwarding preference"

GetForwardingPreference_PaddingIsObject(type) ==
    CASE type = kObjectStream -> [result |-> kObject, bug |-> NoBug]
      [] type = kObjectDatagram -> [result |-> kDatagram, bug |-> NoBug]
      [] type = kStreamHeaderTrack -> [result |-> kTrack, bug |-> NoBug]
      [] type = kStreamHeaderGroup -> [result |-> kGroup, bug |-> NoBug]
      [] type = kPadding -> [result |-> kObject, bug |-> NoBug]
      [] OTHER -> [result |-> kObject, bug |-> NoForwardingPreference]

GetForwardingPreference(type) ==
    CASE type = kObjectStream -> [result |-> kObject, bug |-> NoBug]
      [] type = kObjectDatagram -> [result |-> kDatagram, bug |-> NoBug]
      [] type = kStreamHeaderTrack -> [result |-> kTrack, bug |-> NoBug]
      [] type = kStreamHeaderGroup -> [result |-> kGroup, bug |-> NoBug]
      [] OTHER -> [result |-> kObject, bug |-> NoForwardingPreference]

(***************************************************************************)
(* MoqtFramer::SerializeSubscribe.  The filter type is computed first; on  *)
(* kNone the call reports "Invalid object range" and returns an empty      *)
(* buffer.  Otherwise the filter tag follows the fixed fields, and after   *)
(* it only the range fields that the type requires.  The end object goes   *)
(* on the wire as an exclusive bound, one more than the caller's value; a  *)
(* range without an end object carries 0 there, the convention of the      *)
(* SubscribeUpdate end-object field.                                       *)
(***************************************************************************)
SubscribeHeader(message, type) ==
    <<kSubscribe, message.subscribe_id, message.track_alias, type>>

\* Position of the filter tag in a serialized Subscribe, and the number of
\* fixed fields that precede the range fields.
FilterOffset == Len(SubscribeHeader(NoSubscribe, kNone))

EndObjectField(message) ==
    IF message.end_object.has THEN message.end_object.val + 1 ELSE 0

SerializeSubscribe_NoRangeCheck(message, indeterminate) ==
    LET type == GetFilterType(message, indeterminate)
    IN  [bug |-> NoBug, buffer |-> SubscribeHeader(message, type)]

SerializeSubscribe_InclusiveEnd(message, indeterminate) ==
    LET type == GetFilterType(message, indeterminate)
        header == SubscribeHeader(message, type)
    IN  CASE type = kNone ->
               [bug |-> InvalidObjectRange, buffer |-> <<>>]
          [] type \in {kLatestGroup, kLatestObject} ->
               [bug |-> NoBug, buffer |-> header]
          [] type = kAbsoluteStart ->
               [bug |-> NoBug,
                buffer |-> header \o <<message.start_group.val,
                                       message.start_object.val>>]
          [] type = kAbsoluteRange ->
               [bug |-> NoBug,
                buffer |-> header \o <<message.start_group.val,
                                       message.start_object.val,
                                       message.end_group.val,
                                       message.end_object.val>>]

SerializeSubscribe(message, indeterminate) ==
    LET type == GetFilterType(message, indeterminate)
        header == SubscribeHeader(message, type)
    IN  CASE type = kNone ->
               [bug |-> InvalidObjectRange, buffer |-> <<>>]
          [] type \in {kLatestGroup, kLatestObject} ->
               [bug |-> NoBug, buffer |-> header]
          [] type = kAbsoluteStart ->
               [bug |-> NoBug,
                buffer |-> header \o <<message.start_group.val,
                                       message.start_object.val>>]
          [] type = kAbsoluteRange ->
               [bug |-> NoBug,
                buffer |-> header \o <<message.start_group.val,
                                       message.start_object.val,
                                       message.end_group.val,
                                       EndObjectField(message)>>]

(***************************************************************************)
(* The parser's side of Subscribe: read the filter tag, read only the      *)
(* fields the tag implies, and take one off the wire end object.  A wire   *)
(* end object of 0 cannot be decremented and is malformed input, as is a   *)
(* buffer that is too short or a tag outside the four filter types.        *)
(***************************************************************************)
RangeFields(data) == SubSeq(data, FilterOffset + 1, Len(data))

ParseSubscribe(data) ==
    IF Len(data) < FilterOffset \/ data[1] # kSubscribe THEN NotParsed
    ELSE
    LET type == data[FilterOffset]
        range == RangeFields(data)
        base == [NoSubscribe EXCEPT !.subscribe_id = data[2],
                                    !.track_alias = data[3]]
    IN  CASE type = kLatestObject /\ Len(range) = 0 ->
               [ok |-> TRUE, message |-> base]
          [] type = kLatestGroup /\ Len(range) = 0 ->
               [ok |-> TRUE,
                message |-> [base EXCEPT !.start_object = Some(0)]]
          [] type = kAbsoluteStart /\ Len(range) = 2 ->
               [ok |-> TRUE,
                message |-> [base EXCEPT !.start_group = Some(range[1]),
                                         !.start_object = Some(range[2])]]
          [] type = kAbsoluteRange /\ Len(range) = 4 /\ range[4] > 0 ->
               [ok |-> TRUE,
                message |-> [base EXCEPT !.start_group = Some(range[1]),
                                         !.start_object = Some(range[2]),
                                         !.end_group = Some(range[3]),
                                         !.end_object = Some(range[4] - 1)]]
          [] OTHER -> NotParsed

(***************************************************************************)
(* MoqtFramer::SerializeObjectHeader.  Three contract checks, each an      *)
(* early return with an empty buffer: a Track or Group object needs its    *)
(* payload length; a non-empty payload needs status kNormal; an Object or  *)
(* Datagram object cannot follow another object on a stream.  On the first *)
(* object of a stream the whole header is written; on a later one only the *)
(* fields that vary from object to object.  The status is written when no  *)
(* payload follows the length, and always for Object and Datagram.         *)
(***************************************************************************)
LengthAndStatus(message) ==
    IF message.forwarding_preference \in {kTrack, kGroup}
    THEN IF message.payload_length.val = 0
         THEN <<message.payload_length.val, message.object_status>>
         ELSE <<message.payload_length.val>>
    ELSE <<message.object_status>>

ObjectHeaderFields_GroupIdOnTrack(message, first) ==
    IF first
    THEN <<GetMessageTypeForForwardingPreference(message.forwarding_preference),
           message.subscribe_id, message.track_alias, message.group_id,
           message.object_id, message.publisher_priority>>
         \o LengthAndStatus(message)
    ELSE IF message.forwarding_preference = kTrack
    THEN <<message.group_id, message.object_id>> \o LengthAndStatus(message)
    ELSE <<message.object_id>> \o LengthAndStatus(message)

ObjectHeaderFields(message, first) ==
    IF first
    THEN <<GetMessageTypeForForwardingPreference(message.forwarding_preference),
           message.subscribe_id, message.track_alias, message.group_id,
           message.object_id, message.publisher_priority>>
         \o LengthAndStatus(message)
    ELSE <<message.object_id>> \o LengthAndStatus(message)

MissingLength(message) ==
    /\ ~message.payload_length.has
    /\ message.forwarding_preference \notin {kObject, kDatagram}

StatusMismatch(message) ==
    /\ message.object_status # kNormal
    /\ message.payload_length.has
    /\ message.payload_length.val > 0

NotFirst(message, first) ==
    /\ ~first
    /\ message.forwarding_preference \in {kObject, kDatagram}

SerializeObjectHeader_ObjectOnlyFirst(message, first) ==
    IF MissingLength(message)
    THEN [bug |-> LengthRequired, buffer |-> <<>>]
    ELSE IF StatusMismatch(message)
    THEN [bug |-> StatusMustBeNormal, buffer |-> <<>>]
    ELSE IF ~first /\ message.forwarding_preference = kObject
    THEN [bug |-> MustBeFirst, buffer |-> <<>>]
    ELSE [bug |-> NoBug, buffer |-> ObjectHeaderFields(message, first)]

SerializeObjectHeader_TrackOnlyLength(message, first) ==
    IF ~message.payload_length.has /\ message.forwarding_preference = kTrack
    THEN [bug |-> LengthRequired, buffer |-> <<>>]
    ELSE IF StatusMismatch(message)
    THEN [bug |-> StatusMustBeNormal, buffer |-> <<>>]
    ELSE IF NotFirst(message, first)
    THEN [bug |-> MustBeFirst, buffer |-> <<>>]
    ELSE [bug |-> NoBug, buffer |-> ObjectHeaderFields(message, first)]

SerializeObjectHeader_StatusAnyLength(message, first) ==
    IF MissingLength(message)
    THEN [bug |-> LengthRequired, buffer |-> <<>>]
    ELSE IF message.object_status # kNormal /\ message.payload_length.has
    THEN [bug |-> StatusMustBeNormal, buffer |-> <<>>]
    ELSE IF NotFirst(message, first)
    THEN [bug |-> MustBeFirst, buffer |-> <<>>]
    ELSE [bug |-> NoBug, buffer |-> ObjectHeaderFields(message, first)]

SerializeObjectHeader(message, first) ==
    IF MissingLength(message)
    THEN [bug |-> LengthRequired, buffer |-> <<>>]
    ELSE IF StatusMismatch(message)
    THEN [bug |-> StatusMustBeNormal, buffer |-> <<>>]
    ELSE IF NotFirst(message, first)
    THEN [bug |-> MustBeFirst, buffer |-> <<>>]
    ELSE [bug |-> NoBug, buffer |-> ObjectHeaderFields(message, first)]

(***************************************************************************)
(* MoqtFramer::SerializeSubscribeUpdate.  An end object without an end     *)
(* group is refused with "Invalid object range".  Otherwise the message    *)
(* always carries start group, start object, an end-group field, an        *)
(* end-object field and the priority; each end field is the caller's value *)
(* plus one, and 0 when the caller gave none.                              *)
(***************************************************************************)
EndGroupField(message) ==
    IF message.end_group.has THEN message.end_group.val + 1 ELSE 0

SerializeSubscribeUpdate_InclusiveEnd(message) ==
    IF message.end_object.has /\ ~message.end_group.has
    THEN [bug |-> InvalidObjectRange, buffer |-> <<>>]
    ELSE [bug |-> NoBug,
          buffer |-> <<kSubscribeUpdate, message.subscribe_id,
                       message.start_group, message.start_object,
                       EndGroupField(message), message.end_object.val,
                       message.subscriber_priority>>]

SerializeSubscribeUpdate_OrderedRange(message) ==
    IF \/ message.end_object.has /\ ~message.end_group.has
       \/ message.end_group.has /\ message.end_group.val < message.start_group
    THEN [bug |-> InvalidObjectRange, buffer |-> <<>>]
    ELSE [bug |-> NoBug,
          buffer |-> <<kSubscribeUpdate, message.subscribe_id,
                       message.start_group, message.start_object,
                       EndGroupField(message), EndObjectField(message),
                       message.subscriber_priority>>]

SerializeSubscribeUpdate(message) ==
    IF message.end_object.has /\ ~message.end_group.has
    THEN [bug |-> InvalidObjectRange, buffer |-> <<>>]
    ELSE [bug |-> NoBug,
          buffer |-> <<kSubscribeUpdate, message.subscribe_id,
                       message.start_group, message.start_object,
                       EndGroupField(message), EndObjectField(message),
                       message.subscriber_priority>>]

(***************************************************************************)
(* MoqtFramer::SerializeObjectDatagram.  One packet with the whole header  *)
(* and the payload; the stream type written is kObjectDatagram, and        *)
(* neither the forwarding preference nor the payload_length field of the   *)
(* object is looked at.                                                    *)
(***************************************************************************)
SerializeObjectDatagram_TypeOfPreference(message, data) ==
    [bug |-> NoBug,
     buffer |-> <<GetMessageTypeForForwardingPreference(
                      message.forwarding_preference),
                  message.subscribe_id, message.track_alias,
                  message.group_id, message.object_id,
                  message.publisher_priority, message.object_status>>
                \o data]

SerializeObjectDatagram(message, data) ==
    [bug |-> NoBug,
     buffer |-> <<kObjectDatagram, message.subscribe_id, message.track_alias,
                  message.group_id, message.object_id,
                  message.publisher_priority, message.object_status>>
                \o data]

(***************************************************************************)
(* The nghttp2 callback adapter (http2/adapter/nghttp2_callbacks.cc).      *)
(***************************************************************************)

\* Largest number of entries drawn for a SETTINGS frame.
MaxEntries == 2

\* frame->hd.type: the cases of the switch, and a type it has no case for.
FrameTypes ==
    {"NGHTTP2_DATA", "NGHTTP2_HEADERS", "NGHTTP2_PRIORITY",
     "NGHTTP2_RST_STREAM", "NGHTTP2_SETTINGS", "NGHTTP2_PUSH_PROMISE",
     "NGHTTP2_PING", "NGHTTP2_GOAWAY", "NGHTTP2_WINDOW_UPDATE",
     "NGHTTP2_CONTINUATION", "NGHTTP2_ALTSVC", "NGHTTP2_ORIGIN",
     "unknown type"}

\* frame->hd.flags, as the set of the flags the handler tests.
NGHTTP2_FLAG_END_STREAM == "NGHTTP2_FLAG_END_STREAM"
NGHTTP2_FLAG_END_HEADERS == "NGHTTP2_FLAG_END_HEADERS"
NGHTTP2_FLAG_ACK == "NGHTTP2_FLAG_ACK"
FrameFlags ==
    SUBSET {NGHTTP2_FLAG_END_STREAM, NGHTTP2_FLAG_END_HEADERS,
            NGHTTP2_FLAG_ACK}

\* nghttp2_settings_entry, and frame->settings.iv with niv = Len(iv).
SettingsEntries == [settings_id : Ids, value : Ids]
SettingsVectors ==
    UNION {[1..n -> SettingsEntries] : n \in 0..MaxEntries}

\* nghttp2_frame: the header fields the handler reads; iv is the settings
\* member of the union, empty for every other type.
Frames ==
    [type : FrameTypes \ {"NGHTTP2_SETTINGS"}, flags : FrameFlags,
     stream_id : Ids, iv : {<<>>}]
    \cup [type : {"NGHTTP2_SETTINGS"}, flags : FrameFlags, stream_id : Ids,
          iv : SettingsVectors]
NoFrame == [type |-> "none", flags |-> {}, stream_id |-> 0, iv |-> <<>>]

\* static_cast<Http2SettingsId>(entry.settings_id), a 16-bit identifier.
ToHttp2SettingsId(settings_id) == settings_id % 65536

\* case NGHTTP2_DATA
DataCalls(f) ==
    IF NGHTTP2_FLAG_END_STREAM \in f.flags
    THEN << <<"OnEndStream", f.stream_id>> >>
    ELSE <<>>

HeadersCalls_EndStreamFirst(f) ==
    (IF NGHTTP2_FLAG_END_STREAM \in f.flags
     THEN << <<"OnEndStream", f.stream_id>> >>
     ELSE <<>>)
    \o (IF NGHTTP2_FLAG_END_HEADERS \in f.flags
        THEN << <<"OnEndHeadersForStream", f.stream_id>> >>
        ELSE <<>>)

\* case NGHTTP2_HEADERS
HeadersCalls(f) ==
    (IF NGHTTP2_FLAG_END_HEADERS \in f.flags
     THEN << <<"OnEndHeadersForStream", f.stream_id>> >>
     ELSE <<>>)
    \o (IF NGHTTP2_FLAG_END_STREAM \in f.flags
        THEN << <<"OnEndStream", f.stream_id>> >>
        ELSE <<>>)

\* The loop over frame->settings.iv.
SettingCalls(iv) ==
    [i \in 1..Len(iv) |->
        <<"OnSetting", ToHttp2SettingsId(iv[i].settings_id), iv[i].value>>]

SettingsCalls_EndBeforeSettings(f) ==
    IF NGHTTP2_FLAG_ACK \in f.flags
    THEN << <<"OnSettingsAck">> >>
    ELSE << <<"OnSettingsStart">>, <<"OnSettingsEnd">> >>
         \o SettingCalls(f.iv)

\* case NGHTTP2_SETTINGS
SettingsCalls(f) ==
    IF NGHTTP2_FLAG_ACK \in f.flags
    THEN << <<"OnSettingsAck">> >>
    ELSE << <<"OnSettingsStart">> >> \o SettingCalls(f.iv)
         \o << <<"OnSettingsEnd">> >>

(***************************************************************************)
(* OnFrameReceived: the visitor calls the switch over frame->hd.type       *)
(* makes, in order.  The payload arguments of the calls the claims do not  *)
(* speak of are left out.                                                  *)
(***************************************************************************)
OnFrameReceived(f) ==
    CASE f.type = "NGHTTP2_DATA" -> DataCalls(f)
      [] f.type = "NGHTTP2_HEADERS" -> HeadersCalls(f)
      [] f.type = "NGHTTP2_PRIORITY" ->
            << <<"OnPriorityForStream", f.stream_id>> >>
      [] f.type = "NGHTTP2_RST_STREAM" -> << <<"OnRstStream", f.stream_id>> >>
      [] f.type = "NGHTTP2_SETTINGS" -> SettingsCalls(f)
      [] f.type = "NGHTTP2_PING" ->
            << <<"OnPing", NGHTTP2_FLAG_ACK \in f.flags>> >>
      [] f.type = "NGHTTP2_GOAWAY" -> << <<"OnGoAway">> >>
      [] f.type = "NGHTTP2_WINDOW_UPDATE" ->
            << <<"OnWindowUpdate", f.stream_id>> >>
      [] OTHER -> <<>>

Init ==
    /\ op = "none"
    /\ subscribe = NoSubscribe
    /\ object = NoObject
    /\ is_first_in_stream = TRUE
    /\ filter_type = kNone
    /\ buffer = <<>>
    /\ bug = NoBug
    /\ parsed = NotParsed
    /\ subscribe_update = NoSubscribeUpdate
    /\ payload = <<>>
    /\ symbols = <<>>
    /\ frame = NoFrame
    /\ visitor = <<>>

\* A call of GetFilterType on any Subscribe.
CallGetFilterType ==
    /\ op = "none"
    /\ \E message \in MoqtSubscribe, indeterminate \in Values :
        /\ op' = "GetFilterType"
        /\ subscribe' = message
        /\ filter_type' = GetFilterType(message, indeterminate)
    /\ UNCHANGED <<frame, visitor, object, is_first_in_stream, buffer, bug, parsed,
                   subscribe_update, payload, symbols>>

\* framer_.SerializeSubscribe(subscribe)
CallSerializeSubscribe ==
    /\ op = "none"
    /\ \E message \in MoqtSubscribe, indeterminate \in Values :
        LET result == SerializeSubscribe(message, indeterminate)
        IN  /\ op' = "SerializeSubscribe"
            /\ subscribe' = message
            /\ filter_type' = GetFilterType(message, indeterminate)
            /\ buffer' = result.buffer
            /\ bug' = result.bug
    /\ UNCHANGED <<frame, visitor, object, is_first_in_stream, parsed, subscribe_update,
                   payload, symbols>>

\* The peer parses the bytes of a serialized Subscribe.
CallParseSubscribe ==
    /\ op = "SerializeSubscribe"
    /\ buffer # <<>>
    /\ op' = "ParseSubscribe"
    /\ parsed' = ParseSubscribe(buffer)
    /\ UNCHANGED <<frame, visitor, subscribe, object, is_first_in_stream, filter_type, buffer,
                   bug, subscribe_update, payload, symbols>>

\* framer_.SerializeObjectHeader(object, is_first_in_stream)
CallSerializeObjectHeader ==
    /\ op = "none"
    /\ \E message \in MoqtObject, first \in BOOLEAN :
        LET result == SerializeObjectHeader(message, first)
        IN  /\ op' = "SerializeObjectHeader"
            /\ object' = message
            /\ is_first_in_stream' = first
            /\ buffer' = result.buffer
            /\ bug' = result.bug
    /\ UNCHANGED <<frame, visitor, subscribe, filter_type, parsed, subscribe_update, payload,
                   symbols>>

\* framer_.SerializeSubscribeUpdate(subscribe_update)
CallSerializeSubscribeUpdate ==
    /\ op = "none"
    /\ \E message \in MoqtSubscribeUpdate :
        LET result == SerializeSubscribeUpdate(message)
        IN  /\ op' = "SerializeSubscribeUpdate"
            /\ subscribe_update' = message
            /\ buffer' = result.buffer
            /\ bug' = result.bug
    /\ UNCHANGED <<frame, visitor, subscribe, object, is_first_in_stream, filter_type, parsed,
                   payload, symbols>>

\* framer_.SerializeObjectDatagram(object, payload)
CallSerializeObjectDatagram ==
    /\ op = "none"
    /\ \E message \in MoqtObject, data \in Payloads :
        LET result == SerializeObjectDatagram(message, data)
        IN  /\ op' = "SerializeObjectDatagram"
            /\ object' = message
            /\ payload' = data
            /\ buffer' = result.buffer
            /\ bug' = result.bug
    /\ UNCHANGED <<frame, visitor, subscribe, is_first_in_stream, filter_type, parsed,
                   subscribe_update, symbols>>

\* GetForwardingPreference(type), on any value of the type or on the stream
\* type that GetMessageTypeForForwardingPreference just returned.
CallGetForwardingPreference ==
    /\ \/ /\ op = "none"
          /\ \E type \in MoqtDataStreamType \cup OutOfSet :
                /\ symbols' = <<type, GetForwardingPreference(type).result>>
                /\ bug' = GetForwardingPreference(type).bug
       \/ /\ op = "GetMessageTypeForForwardingPreference"
          /\ Len(symbols) = 2
          /\ symbols' =
                Append(symbols, GetForwardingPreference(symbols[2]).result)
          /\ bug' = IF bug # NoBug THEN bug
                    ELSE GetForwardingPreference(symbols[2]).bug
    /\ op' = "GetForwardingPreference"
    /\ UNCHANGED <<frame, visitor, subscribe, object, is_first_in_stream, filter_type, buffer,
                   parsed, subscribe_update, payload>>

\* GetMessageTypeForForwardingPreference(preference), on any value of the
\* type or on the preference that GetForwardingPreference just returned.
CallGetMessageTypeForForwardingPreference ==
    /\ \/ /\ op = "none"
          /\ \E preference \in MoqtForwardingPreference \cup OutOfSet :
                /\ symbols' =
                      <<preference,
                        GetMessageTypeForForwardingPreference(preference)>>
                /\ bug' = GetMessageTypeForForwardingPreferenceBug(preference)
       \/ /\ op = "GetForwardingPreference"
          /\ Len(symbols) = 2
          /\ symbols' =
                Append(symbols,
                       GetMessageTypeForForwardingPreference(symbols[2]))
          /\ bug' = IF bug # NoBug THEN bug
                    ELSE GetMessageTypeForForwardingPreferenceBug(symbols[2])
    /\ op' = "GetMessageTypeForForwardingPreference"
    /\ UNCHANGED <<frame, visitor, subscribe, object, is_first_in_stream, filter_type, buffer,
                   parsed, subscribe_update, payload>>

\* MoqtMessageTypeToString(message_type)
CallMoqtMessageTypeToString ==
    /\ op = "none"
    /\ \E message_type \in MoqtMessageType \cup OutOfSet :
        symbols' = <<message_type, MoqtMessageTypeToString(message_type)>>
    /\ op' = "MoqtMessageTypeToString"
    /\ UNCHANGED <<frame, visitor, subscribe, object, is_first_in_stream, filter_type, buffer,
                   bug, parsed, subscribe_update, payload>>

\* MoqtDataStreamTypeToString(type)
CallMoqtDataStreamTypeToString ==
    /\ op = "none"
    /\ \E type \in MoqtDataStreamType \cup OutOfSet :
        symbols' = <<type, MoqtDataStreamTypeToString(type)>>
    /\ op' = "MoqtDataStreamTypeToString"
    /\ UNCHANGED <<frame, visitor, subscribe, object, is_first_in_stream, filter_type, buffer,
                   bug, parsed, subscribe_update, payload>>

\* MoqtForwardingPreferenceToString(preference)
CallMoqtForwardingPreferenceToString ==
    /\ op = "none"
    /\ \E preference \in MoqtForwardingPreference \cup OutOfSet :
        /\ symbols' =
              <<preference, MoqtForwardingPreferenceToString(preference).name>>
        /\ bug' = MoqtForwardingPreferenceToString(preference).bug
    /\ op' = "MoqtForwardingPreferenceToString"
    /\ UNCHANGED <<frame, visitor, subscribe, object, is_first_in_stream, filter_type, buffer,
                   parsed, subscribe_update, payload>>

\* IntegerToObjectStatus(integer)
CallIntegerToObjectStatus ==
    /\ op = "none"
    /\ \E integer \in WireIntegers :
        symbols' = <<integer, IntegerToObjectStatus(integer)>>
    /\ op' = "IntegerToObjectStatus"
    /\ UNCHANGED <<frame, visitor, subscribe, object, is_first_in_stream, filter_type, buffer,
                   bug, parsed, subscribe_update, payload>>

\* nghttp2 hands a received frame to OnFrameReceived.
CallOnFrameReceived ==
    /\ op = "none"
    /\ \E f \in Frames :
        /\ frame' = f
        /\ visitor' = OnFrameReceived(f)
    /\ op' = "OnFrameReceived"
    /\ UNCHANGED <<subscribe, object, is_first_in_stream, filter_type, buffer,
                   bug, parsed, subscribe_update, payload, symbols>>

\* The caller drops the result; the framer holds nothing of the call.
Release ==
    /\ op # "none"
    /\ op' = "none"
    /\ subscribe' = NoSubscribe
    /\ object' = NoObject
    /\ is_first_in_stream' = TRUE
    /\ filter_type' = kNone
    /\ buffer' = <<>>
    /\ bug' = NoBug
    /\ parsed' = NotParsed
    /\ subscribe_update' = NoSubscribeUpdate
    /\ payload' = <<>>
    /\ symbols' = <<>>
    /\ frame' = NoFrame
    /\ visitor' = <<>>

Next ==
    \/ CallGetFilterType
    \/ CallSerializeSubscribe
    \/ CallParseSubscribe
    \/ CallSerializeObjectHeader
    \/ CallSerializeSubscribeUpdate
    \/ CallSerializeObjectDatagram
    \/ CallGetForwardingPreference
    \/ CallGetMessageTypeForForwardingPreference
    \/ CallMoqtMessageTypeToString
    \/ CallMoqtDataStreamTypeToString
    \/ CallMoqtForwardingPreferenceToString
    \/ CallIntegerToObjectStatus
    \/ CallOnFrameReceived
    \/ Release

Spec == Init /\ [][Next]_vars

(***************************************************************************)
(* Properties.                                                             *)
(***************************************************************************)
FilterTypeCall == op = "GetFilterType"
SerializeSubscribeCall == op = "SerializeSubscribe"
ObjectHeaderCall == op = "SerializeObjectHeader"
Failed(text) == bug = text /\ Len(buffer) = 0

\* C1: SerializeSubscribe reports "Invalid object range" and returns a buffer
\* of size 0 exactly when the filter type of the message is kNone; for each of
\* the four other filter types it returns a non-empty buffer and reports
\* nothing.
C1_SubscribeFailsIffNone ==
    SerializeSubscribeCall =>
        /\ Failed(InvalidObjectRange) <=> filter_type = kNone
        /\ filter_type \in {kLatestObject, kLatestGroup, kAbsoluteStart,
                            kAbsoluteRange}
             => (Len(buffer) > 0 /\ bug = NoBug)

\* A Subscribe with only a non-zero start object was refused.
C1_Witness ==
    /\ SerializeSubscribeCall
    /\ subscribe.start_object = Some(1)
    /\ ~subscribe.start_group.has
    /\ ~subscribe.end_group.has
    /\ ~subscribe.end_object.has
    /\ filter_type = kNone
    /\ Failed(InvalidObjectRange)

\* C2: with start_group, start_object and end_group present, GetFilterType
\* returns kNone when end_group < start_group (end_object present or not) and
\* when end_group = start_group with end_object present and below start_object.
C2_EndBeforeStartIsNone ==
    ( /\ FilterTypeCall
      /\ HasStart(subscribe)
      /\ subscribe.end_group.has
      /\ \/ subscribe.end_group.val < subscribe.start_group.val
         \/ /\ subscribe.end_group.val = subscribe.start_group.val
            /\ subscribe.end_object.has
            /\ subscribe.end_object.val < subscribe.start_object.val )
    => filter_type = kNone

\* The end group lies before the start group and no end object is given.
C2_Witness ==
    /\ FilterTypeCall
    /\ HasStart(subscribe)
    /\ subscribe.end_group.has
    /\ subscribe.end_group.val < subscribe.start_group.val
    /\ ~subscribe.end_object.has
    /\ filter_type = kNone

\* C3: GetFilterType returns kAbsoluteRange for every input with start_group,
\* start_object and end_group present, end_group >= start_group, and not
\* (end_group = start_group with end_object <= start_object); an absent
\* end_object is such an input, also when the two groups are equal.
C3_AbsoluteRange ==
    ( /\ FilterTypeCall
      /\ HasStart(subscribe)
      /\ subscribe.end_group.has
      /\ subscribe.end_group.val >= subscribe.start_group.val
      /\ ~ ( /\ subscribe.end_group.val = subscribe.start_group.val
             /\ subscribe.end_object.has
             /\ subscribe.end_object.val <= subscribe.start_object.val ) )
    => filter_type = kAbsoluteRange

\* C4: with all four endpoints present and the end equal to the start,
\* GetFilterType returns kAbsoluteStart.
C4_EqualEndIsAbsoluteStart ==
    ( /\ FilterTypeCall
      /\ HasStart(subscribe)
      /\ subscribe.end_group.has
      /\ subscribe.end_object.has
      /\ subscribe.end_group.val = subscribe.start_group.val
      /\ subscribe.end_object.val = subscribe.start_object.val )
    => filter_type = kAbsoluteStart

\* The range (1,2)..(1,2) was classified as kAbsoluteStart.
C4_Witness ==
    /\ FilterTypeCall
    /\ subscribe.start_group = Some(1)
    /\ subscribe.start_object = Some(2)
    /\ subscribe.end_group = Some(1)
    /\ subscribe.end_object = Some(2)
    /\ filter_type = kAbsoluteStart

\* C5: GetFilterType returns kNone when end_object is present without
\* end_group (whatever the start fields), and when end_group is present while
\* start_group or start_object is absent.
C5_EndWithoutItsRequirementIsNone ==
    ( /\ FilterTypeCall
      /\ \/ subscribe.end_object.has /\ ~subscribe.end_group.has
         \/ subscribe.end_group.has /\ ~HasStart(subscribe) )
    => filter_type = kNone

\* An end object without an end group, on a message with a full start.
C5_Witness ==
    /\ FilterTypeCall
    /\ HasStart(subscribe)
    /\ subscribe.end_object.has
    /\ ~subscribe.end_group.has
    /\ filter_type = kNone

\* C6: with end_group and end_object absent, GetFilterType returns
\* kAbsoluteStart when both start fields are present, kLatestObject when both
\* are absent, kLatestGroup when only start_object is present and is 0, and
\* kNone otherwise.
C6_NoEndClassification ==
    ( /\ FilterTypeCall
      /\ ~subscribe.end_group.has
      /\ ~subscribe.end_object.has )
    => /\ HasStart(subscribe) => filter_type = kAbsoluteStart
       /\ ~subscribe.start_group.has /\ ~subscribe.start_object.has
            => filter_type = kLatestObject
       /\ ~subscribe.start_group.has /\ subscribe.start_object = Some(0)
            => filter_type = kLatestGroup
       /\ subscribe.start_group.has /\ ~subscribe.start_object.has
            => filter_type = kNone
       /\ ( /\ ~subscribe.start_group.has
            /\ subscribe.start_object.has
            /\ subscribe.start_object.val # 0 )
            => filter_type = kNone

\* A start object other than 0 on its own was classified as kNone.
C6_Witness ==
    /\ FilterTypeCall
    /\ ~subscribe.end_group.has
    /\ ~subscribe.end_object.has
    /\ ~subscribe.start_group.has
    /\ subscribe.start_object = Some(2)
    /\ filter_type = kNone

\* C7: for every Subscribe whose filter type is not kNone, parsing the bytes
\* SerializeSubscribe produced gives back the four range optionals, equal in
\* presence and in value.
C7_SubscribeRoundTrip ==
    op = "ParseSubscribe" =>
        /\ parsed.ok
        /\ parsed.message.start_group = subscribe.start_group
        /\ parsed.message.start_object = subscribe.start_object
        /\ parsed.message.end_group = subscribe.end_group
        /\ parsed.message.end_object = subscribe.end_object

\* The fields on the wire after the filter tag.
WireRange == SubSeq(buffer, FilterOffset + 1, Len(buffer))

C9_GroupNeedsLength ==
    ( /\ ObjectHeaderCall
      /\ object.forwarding_preference = kGroup
      /\ ~object.payload_length.has )
    => Failed(LengthRequired)

\* The refusal on the first object of a stream.
C9_Witness ==
    /\ ObjectHeaderCall
    /\ object.forwarding_preference = kGroup
    /\ ~object.payload_length.has
    /\ is_first_in_stream
    /\ Failed(LengthRequired)

SubscribeUpdateCall == op = "SerializeSubscribeUpdate"
ObjectDatagramCall == op = "SerializeObjectDatagram"

C14_UpdateFailsIffEndObjectAlone ==
    SubscribeUpdateCall =>
        /\ Failed(InvalidObjectRange)
             <=> ( /\ subscribe_update.end_object.has
                   /\ ~subscribe_update.end_group.has )
        /\ ~ ( /\ subscribe_update.end_object.has
               /\ ~subscribe_update.end_group.has )
             => (Len(buffer) > 0 /\ bug = NoBug)

\* An update whose end group lies before its start group was encoded.
C14_Witness ==
    /\ SubscribeUpdateCall
    /\ subscribe_update.end_group.has
    /\ subscribe_update.end_group.val < subscribe_update.start_group
    /\ Len(buffer) > 0
    /\ bug = NoBug

\* C15: for an object of status kNormal and any payload,
\* SerializeObjectDatagram returns a non-empty datagram, and the same one for
\* each of the four forwarding preferences and for a payload_length field
\* that is set or not.
C15_DatagramNotGated ==
    (ObjectDatagramCall /\ object.object_status = kNormal) =>
        /\ Len(buffer) > 0
        /\ bug = NoBug
        /\ \A preference \in MoqtForwardingPreference, length \in Optionals :
             SerializeObjectDatagram(
                 [object EXCEPT !.forwarding_preference = preference,
                                !.payload_length = length],
                 payload)
             = [bug |-> NoBug, buffer |-> buffer]

\* A Track object with its payload length set went out as a datagram.
C15_Witness ==
    /\ ObjectDatagramCall
    /\ object.object_status = kNormal
    /\ object.forwarding_preference = kTrack
    /\ object.payload_length = Some(2)
    /\ Len(payload) = 2
    /\ bug = NoBug
    /\ buffer[1] = kObjectDatagram

\* The four stream types that have a forwarding preference.
PairedStreamTypes ==
    {kObjectStream, kObjectDatagram, kStreamHeaderTrack, kStreamHeaderGroup}

\* C17: on the four paired values the two mappings are inverses of each
\* other: a stream type mapped to its preference and back is the stream type
\* again, a preference mapped to its stream type and back is the preference
\* again, and neither call reports a violation.
C17_MappingsAreInverses ==
    /\ ( /\ op = "GetMessageTypeForForwardingPreference"
         /\ Len(symbols) = 3
         /\ symbols[1] \in PairedStreamTypes )
       => (symbols[3] = symbols[1] /\ bug = NoBug)
    /\ ( /\ op = "GetForwardingPreference"
         /\ Len(symbols) = 3
         /\ symbols[1] \in MoqtForwardingPreference )
       => (symbols[3] = symbols[1] /\ bug = NoBug)

\* kStreamHeaderGroup went to kGroup and back.
C17_Witness ==
    /\ op = "GetMessageTypeForForwardingPreference"
    /\ symbols = <<kStreamHeaderGroup, kGroup, kStreamHeaderGroup>>
    /\ bug = NoBug

\* C18: each name function returns a fixed descriptive text, not the numeric
\* fallback, for every declared enumerator of its type.
C18_DeclaredEnumeratorsAreNamed ==
    /\ (op = "MoqtMessageTypeToString" /\ symbols[1] \in MoqtMessageType)
       => ~IsFallback(symbols[2])
    /\ (op = "MoqtDataStreamTypeToString" /\ symbols[1] \in MoqtDataStreamType)
       => ~IsFallback(symbols[2])
    /\ ( /\ op = "MoqtForwardingPreferenceToString"
         /\ symbols[1] \in MoqtForwardingPreference )
       => ~IsFallback(symbols[2])

\* C19 as stated: on a value outside the declared set each of the three name
\* functions returns its fallback text with that value and reports no
\* violation.
C19_FallbackSilentAsStated ==
    /\ (op = "MoqtMessageTypeToString" /\ symbols[1] \in OutOfSet)
       => (symbols[2] = <<"Unknown message ", symbols[1]>> /\ bug = NoBug)
    /\ (op = "MoqtDataStreamTypeToString" /\ symbols[1] \in OutOfSet)
       => (symbols[2] = <<"Unknown stream type ", symbols[1]>> /\ bug = NoBug)
    /\ (op = "MoqtForwardingPreferenceToString" /\ symbols[1] \in OutOfSet)
       => (symbols[2] = <<"Unknown preference ", symbols[1]>> /\ bug = NoBug)

\* C19, amended: each of the three returns its fallback text with the value;
\* MoqtMessageTypeToString and MoqtDataStreamTypeToString report nothing,
\* MoqtForwardingPreferenceToString reports the QUIC_BUG "Unknown preference".
C19_FallbackAmended ==
    /\ (op = "MoqtMessageTypeToString" /\ symbols[1] \in OutOfSet)
       => (symbols[2] = <<"Unknown message ", symbols[1]>> /\ bug = NoBug)
    /\ (op = "MoqtDataStreamTypeToString" /\ symbols[1] \in OutOfSet)
       => (symbols[2] = <<"Unknown stream type ", symbols[1]>> /\ bug = NoBug)
    /\ (op = "MoqtForwardingPreferenceToString" /\ symbols[1] \in OutOfSet)
       => ( /\ symbols[2] = <<"Unknown preference ", symbols[1]>>
            /\ bug = "Unknown preference " )
    /\ ( /\ op = "MoqtForwardingPreferenceToString"
         /\ symbols[1] \in MoqtForwardingPreference )
       => bug = NoBug

\* The name of a preference outside the declared set was asked for.
C19_Witness ==
    /\ op = "MoqtForwardingPreferenceToString"
    /\ symbols[1] \in OutOfSet
    /\ IsFallback(symbols[2])
    /\ bug # NoBug

\* C20: GetForwardingPreference reports a violation on every call with
\* kPadding or any other stream type outside the four paired ones, and on no
\* call with a paired one.
C20_UnpairedStreamTypeIsReported ==
    (op = "GetForwardingPreference" /\ Len(symbols) = 2) =>
        (bug # NoBug <=> symbols[1] \notin PairedStreamTypes)

\* GetForwardingPreference(kPadding) reported the violation.
C20_Witness ==
    /\ op = "GetForwardingPreference"
    /\ symbols = <<kPadding, kObject>>
    /\ bug = NoForwardingPreference

\* C21: IntegerToObjectStatus returns the invalid sentinel for every wire
\* integer of 5 or more, the declared status of the same numeric value for
\* every integer 0..4, and the sentinel for no integer below 5.
C21_IntegerToObjectStatus ==
    op = "IntegerToObjectStatus" =>
        /\ symbols[1] >= 5 => symbols[2] = kInvalidObjectStatus
        /\ symbols[1] \in 0..4 =>
              /\ symbols[2] = symbols[1]
              /\ symbols[2] \in DeclaredObjectStatusValues
        /\ symbols[1] < 5 => symbols[2] # kInvalidObjectStatus

\* A wire integer past the sentinel's own value was converted.
C21_Witness ==
    /\ op = "IntegerToObjectStatus"
    /\ symbols[1] > kInvalidObjectStatus
    /\ symbols[2] = kInvalidObjectStatus

\* The positions in the visitor's log of the calls of one method.
CallsOf(method) == {i \in DOMAIN visitor : visitor[i][1] = method}

\* C22: for a HEADERS frame OnFrameReceived calls OnEndHeadersForStream
\* exactly when END_HEADERS is set and OnEndStream exactly when END_STREAM is
\* set, both with the frame's stream id and, when both flags are set,
\* OnEndHeadersForStream first; for a DATA frame it calls nothing but
\* OnEndStream, and that only when END_STREAM is set.
C22_EndOfHeadersAndStream ==
    /\ (op = "OnFrameReceived" /\ frame.type = "NGHTTP2_HEADERS") =>
        /\ Cardinality(CallsOf("OnEndHeadersForStream")) =
              IF NGHTTP2_FLAG_END_HEADERS \in frame.flags THEN 1 ELSE 0
        /\ Cardinality(CallsOf("OnEndStream")) =
              IF NGHTTP2_FLAG_END_STREAM \in frame.flags THEN 1 ELSE 0
        /\ \A i \in CallsOf("OnEndHeadersForStream") \cup CallsOf("OnEndStream") :
              visitor[i][2] = frame.stream_id
        /\ \A i \in CallsOf("OnEndHeadersForStream") :
              \A j \in CallsOf("OnEndStream") : i < j
    /\ (op = "OnFrameReceived" /\ frame.type = "NGHTTP2_DATA") =>
        /\ \A i \in DOMAIN visitor :
              visitor[i] = <<"OnEndStream", frame.stream_id>>
        /\ Len(visitor) > 0 => NGHTTP2_FLAG_END_STREAM \in frame.flags

\* A HEADERS frame with both flags ended its headers, then its stream.
C22_Witness ==
    /\ op = "OnFrameReceived"
    /\ frame.type = "NGHTTP2_HEADERS"
    /\ {NGHTTP2_FLAG_END_HEADERS, NGHTTP2_FLAG_END_STREAM} \subseteq frame.flags
    /\ visitor = << <<"OnEndHeadersForStream", frame.stream_id>>,
                    <<"OnEndStream", frame.stream_id>> >>

\* C23: for a SETTINGS frame without ACK and with n entries OnFrameReceived
\* calls OnSettingsStart, then OnSetting once per entry in frame order, then
\* OnSettingsEnd, and nothing else; for a SETTINGS frame with ACK it calls
\* OnSettingsAck and none of the other three.
C23_SettingsCallOrder ==
    (op = "OnFrameReceived" /\ frame.type = "NGHTTP2_SETTINGS") =>
        IF NGHTTP2_FLAG_ACK \in frame.flags
        THEN /\ CallsOf("OnSettingsAck") = DOMAIN visitor
             /\ Len(visitor) = 1
        ELSE /\ Len(visitor) = Len(frame.iv) + 2
             /\ visitor[1] = <<"OnSettingsStart">>
             /\ \A i \in 1..Len(frame.iv) :
                   /\ visitor[i + 1][1] = "OnSetting"
                   /\ visitor[i + 1][2] = frame.iv[i].settings_id
                   /\ visitor[i + 1][3] = frame.iv[i].value
             /\ visitor[Len(visitor)] = <<"OnSettingsEnd">>

\* A SETTINGS frame of two different entries was delivered.
C23_Witness ==
    /\ op = "OnFrameReceived"
    /\ frame.type = "NGHTTP2_SETTINGS"
    /\ NGHTTP2_FLAG_ACK \notin frame.flags
    /\ Len(frame.iv) = 2
    /\ frame.iv[1] # frame.iv[2]
    /\ Len(visitor) = 4

====
